---------------------------- MODULE Spec2Model ----------------------------
(***************************************************************************)
(* Model of mpi_comm_bench: N single-threaded MPI processes that, forever, *)
(* sleep, meet at a barrier, exchange one message with their ring          *)
(* neighbours (MPI_Sendrecv), and reduce their bandwidth / duration sample *)
(* to rank 0 with six MPI_Reduce calls; rank 0 prints one statistics line. *)
(*                                                                         *)
(* The MPI runtime is the environment: barrier release, message matching   *)
(* (non-overtaking, per link), eager or rendezvous send completion, the    *)
(* in-order matching of collectives, and MPI_Abort's asynchronous kill.    *)
(***************************************************************************)
EXTENDS Integers, Sequences, FiniteSets, TLC

(***************************************************************************)
(* Bounds of the model.                                                    *)
(***************************************************************************)
\* largest group size (mpirun -np) explored
MaxN == 3
\* number of loop iterations a rank may begin (the loop itself is endless)
MaxIter == 2
\* bytes found in uninitialised heap memory range over 0..MaxByte
MaxByte == 1
\* number of CUDA devices on the node ranges over 0..MaxDevices
MaxDevices == 2
\* largest message the MPI library sends eagerly (buffered); larger
\* messages complete only once the matching receive has taken them
EagerLimit == 4096

(***************************************************************************)
(* Numbers.  A double is modelled as a non-negative integer rounded to     *)
(* MantBits significant bits (round to nearest, ties to even); times are   *)
(* steady_clock ticks (nanoseconds), so that bytes/tick is GB/s.           *)
(***************************************************************************)
\* significand width of a double: 53 in the program, scaled down so that
\* rounding shows at the small sample values explored
MantBits == 2

RECURSIVE Pow2(_)
Pow2(n) == IF n = 0 THEN 1 ELSE 2 * Pow2(n - 1)

RECURSIVE Ulp(_)
Ulp(x) == IF x < Pow2(MantBits) THEN 1 ELSE 2 * Ulp(x \div 2)

\* x rounded to a multiple of u: to nearest, ties to the even multiple
RoundTo(x, u) ==
    LET q == x \div u
        rem == x % u
    IN  IF 2 * rem < u THEN q * u
        ELSE IF 2 * rem > u THEN (q + 1) * u
        ELSE IF q % 2 = 0 THEN q * u ELSE (q + 1) * u

\* the double nearest to the real number x
Fl(x) == CHOOSE y \in {RoundTo(v, u) : v \in {x}, u \in {Ulp(x)}} : TRUE

\* a / b in double arithmetic: the quotient rounded to an integer, then to
\* a double
FDiv(a, b) == CHOOSE y \in {Fl(RoundTo(v, w) \div w) : v \in {a}, w \in {b}} : TRUE

FAdd(a, b) == Fl(a + b)
FMin(a, b) == IF b < a THEN b ELSE a
FMax(a, b) == IF b > a THEN b ELSE a

\* C++ % on int: the result has the sign of the dividend
CMod(a, b) == IF a >= 0 THEN a % b ELSE -((-a) % b)

\* width of int: 32 in the program, scaled down so that twice a size_t that
\* does not fit an int is still a number TLC can hold
IntBits == 24

\* static_cast<int> of a size_t (two's complement wrap)
IntCast(x) ==
    LET m == x % Pow2(IntBits)
    IN  IF m >= Pow2(IntBits - 1) THEN m - Pow2(IntBits) ELSE m

(***************************************************************************)
(* Inputs.                                                                 *)
(***************************************************************************)
NoArg == -1
\* a size one int range (and two bytes) beyond what an int holds: the cast
\* to int leaves 2
WrappingSize == Pow2(IntBits) + 2
\* the smallest size whose cast to int is negative
NegativeSize == Pow2(IntBits - 1)
\* values given to --msg-size (NoArg: the option is absent)
MsgSizeArgs == {NoArg, 2, WrappingSize, NegativeSize}
\* values given to --interval
IntervalArgs == {NoArg, 0, 2}
\* elapsed ticks a timed exchange may take
Durations == {1, 4}
Byte == 0..MaxByte
BufNames == {"send", "recv"}
RankIds == 0..(MaxN - 1)

VARIABLES
    \* the environment of the run
    num_processes,  \* MPI_Comm_size
    argv,           \* [msgSize, interval, gpu, memCopyLocal]: the command line
    cuda_build,     \* compiled with USE_CUDA
    numDevices,     \* CUDA devices on the node
    heap,           \* what malloc'ed memory holds: [BufNames -> Byte]
    mallocOk,       \* whether the heap can satisfy malloc(msg_size)
    \* main's locals set by option parsing (the same on every rank)
    msg_size, interval_sec, use_gpu,
    \* per rank
    pc, next, prev, send_buf, recv_buf, dt, bw, redIdx, exit_code, slept,
    \* rank 0
    global,         \* results of the six reductions
    \* the MPI runtime
    barArrived, barReleased, chan, recvDone, redq, aborting,
    \* output
    banner, lines, diag,
    \* history: iterations begun by each rank, the sample each rank
    \* measured for the line not yet printed, and the iteration whose barrier
    \* a process that died never reached (0: the process did not die)
    iter, sample, missed

envVars == <<num_processes, argv, cuda_build, numDevices, heap, mallocOk,
             msg_size, interval_sec, use_gpu>>
rankVars == <<pc, next, prev, send_buf, recv_buf, dt, bw, redIdx,
              exit_code, slept, global>>
mpiVars == <<barArrived, barReleased, chan, recvDone, redq, aborting>>
outVars == <<banner, lines, diag>>
histVars == <<iter, sample, missed>>
vars == <<envVars, rankVars, mpiVars, outVars, histVars>>

Ranks == 0..(num_processes - 1)

(***************************************************************************)
(* Option parsing (main, before the loop).                                 *)
(***************************************************************************)
\* size_t msg_size = 1024 * 1024, replaced by --msg-size when given
ParseMsgSize(a) == IF a.msgSize = NoArg THEN 1024 * 1024 ELSE a.msgSize

\* double interval_sec = 1.0; main reads no --interval option
ParseInterval(a) == 1

\* has_flag(argc, argv, "--gpu")
ParseGpu(a) == a.gpu

(***************************************************************************)
(* Buffers.  A buffer is its address, its memory space, its size and its   *)
(* content; the content is abstracted to the byte value that fills it.     *)
(***************************************************************************)
NullBuf == [addr |-> 0, space |-> "null", size |-> 0, fill |-> 0]

\* the address an allocation returns: distinct for the two buffers
AddrOf(name) == IF name = "send" THEN 1 ELSE 2

\* malloc(size): memory whose content is whatever the heap held, or a null
\* pointer when the heap cannot satisfy the request
Malloc(name, size) ==
    IF mallocOk
    THEN [addr |-> AddrOf(name), space |-> "host", size |-> size, fill |-> heap[name]]
    ELSE NullBuf

\* cudaMalloc(&p, size) followed by cudaMemset(p, 0, size)
CudaMallocZero(name, size) ==
    [addr |-> AddrOf(name), space |-> "device", size |-> size, fill |-> 0]

\* cudaMalloc succeeds when the process has a device to allocate on
CudaOk == numDevices >= 1

(***************************************************************************)
(* Ring topology (main, lines 90-91).                                      *)
(***************************************************************************)
RingNext(rank, n) == CMod(rank + 1, n)
\* faulty variant: the predecessor without the + n that keeps the dividend positive
RingPrev_NoWrap(rank, n) == CMod(rank - 1, n)

RingPrev(rank, n) == CMod(rank - 1 + n, n)

(***************************************************************************)
(* Initial states: every process has returned from MPI_Init and parsed its *)
(* options.                                                                *)
(***************************************************************************)
\* how many settings of a run differ from their defaults; the runs explored
\* change at most one
Settings(a, h) ==
    (IF a.msgSize = NoArg THEN 0 ELSE 1) + (IF a.interval = NoArg THEN 0 ELSE 1)
    + (IF a.gpu THEN 1 ELSE 0) + (IF \E b \in BufNames : h[b] # 0 THEN 1 ELSE 0)
    + (IF a.memCopyLocal THEN 1 ELSE 0)

NoResult == [val |-> 0, from |-> {}]
NoSample == [iter |-> 0, dt |-> 0, bw |-> 0]

Init ==
    /\ num_processes \in 1..MaxN
    /\ argv \in [msgSize : MsgSizeArgs, interval : IntervalArgs, gpu : BOOLEAN,
                 memCopyLocal : BOOLEAN]
    /\ heap \in [BufNames -> Byte]
    /\ Settings(argv, heap) <= 1
    /\ mallocOk \in (IF Settings(argv, heap) = 0 THEN BOOLEAN ELSE {TRUE})
    /\ cuda_build \in (IF argv.gpu THEN BOOLEAN ELSE {FALSE})
    /\ numDevices \in (IF argv.gpu /\ cuda_build THEN 0..MaxDevices ELSE {0})
    /\ msg_size = ParseMsgSize(argv)
    /\ interval_sec = ParseInterval(argv)
    /\ use_gpu = ParseGpu(argv)
    /\ pc = [r \in RankIds |-> IF r < num_processes THEN "start" ELSE "off"]
    /\ next = [r \in RankIds |-> 0]
    /\ prev = [r \in RankIds |-> 0]
    /\ send_buf = [r \in RankIds |-> NullBuf]
    /\ recv_buf = [r \in RankIds |-> NullBuf]
    /\ dt = [r \in RankIds |-> 0]
    /\ bw = [r \in RankIds |-> 0]
    /\ redIdx = [r \in RankIds |-> 0]
    /\ exit_code = [r \in RankIds |-> 0]
    /\ slept = [r \in RankIds |-> 0]
    /\ global = [j \in 1..6 |-> NoResult]
    /\ barArrived = {}
    /\ barReleased = {}
    /\ chan = [r \in RankIds |-> <<>>]
    /\ recvDone = [r \in RankIds |-> FALSE]
    /\ redq = [r \in RankIds |-> <<>>]
    /\ aborting = FALSE
    /\ banner = [r \in RankIds |-> FALSE]
    /\ lines = [r \in RankIds |-> 0]
    /\ diag = [r \in RankIds |-> FALSE]
    /\ iter = [r \in RankIds |-> 0]
    /\ sample = [r \in RankIds |-> NoSample]
    /\ missed = [r \in RankIds |-> 0]

(***************************************************************************)
(* Start-up: banner (rank 0), ring neighbours, buffers.                    *)
(***************************************************************************)
\* lines 81-91: the banner and next / prev
Startup(r) ==
    /\ pc[r] = "start"
    /\ banner' = [banner EXCEPT ![r] = (r = 0)]
    /\ next' = [next EXCEPT ![r] = RingNext(r, num_processes)]
    /\ prev' = [prev EXCEPT ![r] = RingPrev(r, num_processes)]
    /\ pc' = [pc EXCEPT ![r] = "alloc"]
    /\ UNCHANGED <<envVars, send_buf, recv_buf, dt, bw, redIdx, exit_code,
                   slept, global, mpiVars, lines, diag, histVars>>

\* lines 110-114: host buffers
AllocHost(r) ==
    /\ pc[r] = "alloc"
    /\ ~use_gpu
    /\ send_buf' = [send_buf EXCEPT ![r] = Malloc("send", msg_size)]
    /\ recv_buf' = [recv_buf EXCEPT ![r] = Malloc("recv", msg_size)]
    /\ pc' = [pc EXCEPT ![r] = "loop"]
    /\ UNCHANGED <<envVars, next, prev, dt, bw, redIdx, exit_code, slept,
                   global, mpiVars, outVars, histVars>>

\* lines 98-103 with USE_CUDA: device buffers, zeroed; a failing call makes
\* checkCuda print the CUDA error and call MPI_Abort
AllocDevice(r) ==
    /\ pc[r] = "alloc"
    /\ use_gpu
    /\ cuda_build
    /\ IF CudaOk
       THEN /\ send_buf' = [send_buf EXCEPT ![r] = CudaMallocZero("send", msg_size)]
            /\ recv_buf' = [recv_buf EXCEPT ![r] = CudaMallocZero("recv", msg_size)]
            /\ pc' = [pc EXCEPT ![r] = "loop"]
            /\ diag' = diag
       ELSE /\ diag' = [diag EXCEPT ![r] = TRUE]
            /\ pc' = [pc EXCEPT ![r] = "abort"]
            /\ UNCHANGED <<send_buf, recv_buf>>
    /\ UNCHANGED <<envVars, next, prev, dt, bw, redIdx, exit_code, slept,
                   global, mpiVars, banner, lines, histVars>>

\* which rank writes the "GPU mode requested but binary not built with
\* USE_CUDA=1" diagnostic (line 105)
WritesNoCudaDiag(r) == r = 0

\* faulty variant: MPI_Abort inside the rank == 0 branch: the other ranks go on
NoCuda_RootOnly(r) ==
    /\ pc[r] = "alloc"
    /\ use_gpu
    /\ ~cuda_build
    /\ diag' = [diag EXCEPT ![r] = (r = 0)]
    /\ pc' = [pc EXCEPT ![r] = IF r = 0 THEN "abort" ELSE "loop"]
    /\ UNCHANGED <<envVars, next, prev, send_buf, recv_buf, dt, bw, redIdx,
                   exit_code, slept, global, mpiVars, banner, lines, histVars>>

\* lines 105-106 without USE_CUDA: the diagnostic, then on to MPI_Abort
NoCuda(r) ==
    /\ pc[r] = "alloc"
    /\ use_gpu
    /\ ~cuda_build
    /\ diag' = [diag EXCEPT ![r] = WritesNoCudaDiag(r)]
    /\ pc' = [pc EXCEPT ![r] = "abort"]
    /\ UNCHANGED <<envVars, next, prev, send_buf, recv_buf, dt, bw, redIdx,
                   exit_code, slept, global, mpiVars, banner, lines, histVars>>

\* MPI_Abort(MPI_COMM_WORLD, 1): the caller exits with the error code and
\* the runtime starts killing the other processes of the job
MPIAbort(r) ==
    /\ pc[r] = "abort"
    /\ pc' = [pc EXCEPT ![r] = "exited"]
    /\ exit_code' = [exit_code EXCEPT ![r] = 1]
    /\ aborting' = TRUE
    /\ UNCHANGED <<envVars, next, prev, send_buf, recv_buf, dt, bw, redIdx,
                   slept, global, barArrived, barReleased, chan, recvDone,
                   redq, outVars, histVars>>

\* the runtime's kill reaches a process that is still running
Kill(r) ==
    /\ aborting
    /\ pc[r] \notin {"off", "exited", "crashed"}
    /\ pc' = [pc EXCEPT ![r] = "exited"]
    /\ exit_code' = [exit_code EXCEPT ![r] = 1]
    /\ UNCHANGED <<envVars, next, prev, send_buf, recv_buf, dt, bw, redIdx,
                   slept, global, mpiVars, outVars, histVars>>

(***************************************************************************)
(* The measurement loop (main, lines 116-177).                             *)
(***************************************************************************)
LoopPcs == {"loop", "sleep", "sync", "exchange", "aggregate", "report"}

\* the iteration count is history, not program state: it is capped where the
\* run is cut off after MaxIter iterations, and wraps where the run is endless
Bump(n, cyc) == IF cyc THEN (n + 1) % (MaxIter + 1) ELSE n + 1

\* faulty variant: a barrier that opens for whoever is there once two ranks are
BarrierArrive_Pairwise(r) ==
    LET arrived == barArrived \cup {r}
    IN  IF arrived = Ranks \/ Cardinality(arrived) >= 2
        THEN barArrived' = {} /\ barReleased' = barReleased \cup arrived
        ELSE barArrived' = arrived /\ barReleased' = barReleased

\* faulty variant: a barrier that lets each rank through as it arrives
BarrierArrive_ReleaseSelf(r) ==
    barArrived' = barArrived /\ barReleased' = barReleased \cup {r}

\* a rank calls MPI_Barrier (line 123): the last arrival releases everyone
BarrierArrive(r) ==
    LET arrived == barArrived \cup {r}
    IN  IF arrived = Ranks
        THEN barArrived' = {} /\ barReleased' = Ranks
        ELSE barArrived' = arrived /\ barReleased' = barReleased

\* faulty variant: an iteration that never sleeps
SleepsFor_Never(interval) == FALSE

\* line 118: whether the iteration sleeps
SleepsFor(interval) == interval > 0

\* faulty variant: a loop that ends after its first iteration
LoopCondition_Once(r) == iter[r] < 1

\* line 116: while ( true )
LoopCondition(r) == TRUE

\* lines 179-190: free / cudaFree of one buffer
Release(buf) == [buf EXCEPT !.space = "freed"]

\* lines 116-123: the top of an iteration; with nothing to sleep the rank
\* goes straight into the barrier.  Were the loop condition false, the rank
\* would go on to lines 179-194: release both buffers, MPI_Finalize, return 0
LoopTop(r, cyc) ==
    /\ pc[r] = "loop"
    /\ cyc \/ iter[r] < MaxIter
    /\ IF LoopCondition(r)
       THEN /\ iter' = [iter EXCEPT ![r] = Bump(iter[r], cyc)]
            /\ IF SleepsFor(interval_sec)
               THEN /\ pc' = [pc EXCEPT ![r] = "sleep"]
                    /\ slept' = [slept EXCEPT ![r] = interval_sec]
                    /\ UNCHANGED <<barArrived, barReleased>>
               ELSE /\ pc' = [pc EXCEPT ![r] = "sync"]
                    /\ slept' = [slept EXCEPT ![r] = 0]
                    /\ BarrierArrive(r)
            /\ UNCHANGED <<send_buf, recv_buf, exit_code>>
       ELSE /\ send_buf' = [send_buf EXCEPT ![r] = Release(@)]
            /\ recv_buf' = [recv_buf EXCEPT ![r] = Release(@)]
            /\ pc' = [pc EXCEPT ![r] = "exited"]
            /\ exit_code' = [exit_code EXCEPT ![r] = 0]
            /\ UNCHANGED <<iter, slept, barArrived, barReleased>>
    /\ UNCHANGED <<envVars, next, prev, dt, bw, redIdx, global, chan, recvDone,
                   redq, aborting, outVars, sample, missed>>

\* lines 120-123: sleep_for returns and the rank calls MPI_Barrier
Wake(r) ==
    /\ pc[r] = "sleep"
    /\ pc' = [pc EXCEPT ![r] = "sync"]
    /\ BarrierArrive(r)
    /\ UNCHANGED <<envVars, next, prev, send_buf, recv_buf, dt, bw, redIdx,
                   exit_code, slept, global, chan, recvDone, redq, aborting,
                   outVars, histVars>>

\* faulty variant: no barrier in front of the timed region
BarrierOpen_NoWait(r) == TRUE

\* faulty variant: a barrier that gives up waiting for the ranks not yet there
BarrierOpen_Timeout(r) == r \in barReleased \/ r \in barArrived

\* whether MPI_Barrier lets rank r return
BarrierOpen(r) == r \in barReleased

\* faulty variant: the send addressed to prev, the rank the receive names
SentMessage_ToPrev(r) ==
    [dest |-> prev[r], tag |-> 0, count |-> IntCast(msg_size),
     data |-> send_buf[r].fill, iter |-> iter[r]]

\* the message MPI_Sendrecv sends (lines 127-131)
SentMessage(r) ==
    [dest |-> next[r], tag |-> 0, count |-> IntCast(msg_size),
     data |-> send_buf[r].fill, iter |-> iter[r]]

\* what MPI_Sendrecv can do with the arguments rank r passes.  A negative
\* count is an MPI error, and main leaves the default error handler
\* (MPI_ERRORS_ARE_FATAL) in place, so the library aborts the job.  A null
\* buffer with a positive count is undefined: the library rejects it, or the
\* process faults when the buffer is read
SendrecvOutcomes(r) ==
    IF IntCast(msg_size) < 0 THEN {"mpi_error"}
    ELSE IF IntCast(msg_size) > 0 /\ "null" \in {send_buf[r].space, recv_buf[r].space}
         THEN {"mpi_error", "fault"}
         ELSE {"ok"}

\* the exit code of a process ended by SIGSEGV
FaultExit == 139

\* lines 123-138: MPI_Barrier returns, t0 is taken and MPI_Sendrecv posts
\* its send to next and its receive from prev
LeaveBarrier(r) ==
    /\ pc[r] = "sync"
    /\ BarrierOpen(r)
    /\ barReleased' = barReleased \ {r}
    /\ \E o \in SendrecvOutcomes(r) :
         CASE o = "ok" ->
                /\ chan' = [chan EXCEPT ![r] = Append(@, SentMessage(r))]
                /\ recvDone' = [recvDone EXCEPT ![r] = FALSE]
                /\ pc' = [pc EXCEPT ![r] = "exchange"]
                /\ exit_code' = exit_code
           [] o = "mpi_error" ->
                /\ pc' = [pc EXCEPT ![r] = "abort"]
                /\ UNCHANGED <<chan, recvDone, exit_code>>
           [] o = "fault" ->
                /\ pc' = [pc EXCEPT ![r] = "exited"]
                /\ exit_code' = [exit_code EXCEPT ![r] = FaultExit]
                /\ UNCHANGED <<chan, recvDone>>
    /\ UNCHANGED <<envVars, next, prev, send_buf, recv_buf, dt, bw, redIdx,
                   slept, global, barArrived, redq, aborting, outVars, histVars>>

\* content no single byte value describes
Mixed == MaxByte + 1

\* faulty variant: the receive buffer reallocated to fit the incoming message
RecvInto_Realloc(buf, msg) ==
    [buf EXCEPT !.fill = msg.data, !.addr = @ + 2, !.size = msg.count]

\* the receive copies msg.count bytes to the front of the buffer
RecvInto(buf, msg) ==
    [buf EXCEPT !.fill = IF msg.count >= buf.size \/ msg.data = buf.fill
                         THEN msg.data ELSE Mixed]

\* the runtime matches rank r's posted receive (source prev, tag 0) with the
\* oldest message on the link from prev and copies it into recv_buf
Deliver(r) ==
    /\ pc[r] = "exchange"
    /\ ~recvDone[r]
    /\ chan[prev[r]] # <<>>
    /\ Head(chan[prev[r]]).dest = r
    /\ Head(chan[prev[r]]).tag = 0
    /\ recv_buf' = [recv_buf EXCEPT ![r] = RecvInto(@, Head(chan[prev[r]]))]
    /\ chan' = [chan EXCEPT ![prev[r]] = Tail(@)]
    /\ recvDone' = [recvDone EXCEPT ![r] = TRUE]
    /\ UNCHANGED <<envVars, pc, next, prev, send_buf, dt, bw, redIdx,
                   exit_code, slept, global, barArrived, barReleased, redq,
                   aborting, outVars, histVars>>

\* rank r's send is complete: buffered by the library (eager), or taken by
\* the receiver (rendezvous)
SendComplete(r) == IntCast(msg_size) <= EagerLimit \/ chan[r] = <<>>

\* line 142: bandwidth in GB/s, bytes per nanosecond tick
ComputeBw(size, d) == FDiv(Fl(2 * size), d)

\* lines 138-147: MPI_Sendrecv returns once both directions are complete;
\* t1, dt and bw follow
CompleteExchange(r) ==
    /\ pc[r] = "exchange"
    /\ recvDone[r]
    /\ SendComplete(r)
    /\ \E d \in Durations : \E b \in {ComputeBw(msg_size, Fl(d))} :
         /\ dt' = [dt EXCEPT ![r] = Fl(d)]
         /\ bw' = [bw EXCEPT ![r] = b]
         /\ sample' = [sample EXCEPT ![r] = [iter |-> iter[r], dt |-> Fl(d), bw |-> b]]
    /\ redIdx' = [redIdx EXCEPT ![r] = 1]
    /\ pc' = [pc EXCEPT ![r] = "aggregate"]
    /\ UNCHANGED <<envVars, next, prev, send_buf, recv_buf, exit_code, slept,
                   global, mpiVars, outVars, iter, missed>>

(***************************************************************************)
(* The six reductions (lines 144-166), in program order:                   *)
(*   1 MIN bw   2 MAX bw   3 SUM bw   4 MIN dt   5 MAX dt   6 SUM dt       *)
(***************************************************************************)
\* faulty variant: the second reduction copied from the first with MPI_MIN kept
ReduceOp_MinForMax(j) ==
    CASE j \in {1, 2, 4} -> "min"
      [] j \in {5} -> "max"
      [] j \in {3, 6} -> "sum"

ReduceOp(j) ==
    CASE j \in {1, 4} -> "min"
      [] j \in {2, 5} -> "max"
      [] j \in {3, 6} -> "sum"

\* local_min_bw, local_max_bw, local_avg_bw = bw; local_*_dt = dt
LocalValue(r, j) == IF j <= 3 THEN bw[r] ELSE dt[r]

\* the root argument of every MPI_Reduce
ReduceRoot == 0

Contribution(r, j) ==
    [rank |-> r, iter |-> iter[r], val |-> LocalValue(r, j), op |-> ReduceOp(j)]

Apply(op, a, b) ==
    CASE op = "min" -> FMin(a, b)
      [] op = "max" -> FMax(a, b)
      [] op = "sum" -> FAdd(a, b)

\* every value the reduction can deliver: the contributions combined left
\* to right, in whichever order the library takes them
RECURSIVE Combine(_, _)
Combine(op, parts) ==
    IF Cardinality(parts) = 1 THEN {c.val : c \in parts}
    ELSE UNION {{Apply(op, v, c.val) : v \in Combine(op, parts \ {c})} : c \in parts}

\* the six contributions of rank r, in program order
RECURSIVE Contributions(_, _)
Contributions(r, j) ==
    IF j > 6 THEN <<>> ELSE <<Contribution(r, j)>> \o Contributions(r, j + 1)

\* the six MPI_Reduce calls on a rank other than the root: each hands the
\* rank's contribution to the library and returns, so the six are one step
Contribute(r) ==
    /\ pc[r] = "aggregate"
    /\ r # ReduceRoot
    /\ redq' = [redq EXCEPT ![r] = @ \o Contributions(r, redIdx[r])]
    /\ redIdx' = [redIdx EXCEPT ![r] = 0]
    /\ pc' = [pc EXCEPT ![r] = "report"]
    /\ UNCHANGED <<envVars, next, prev, send_buf, recv_buf, dt, bw, exit_code,
                   slept, global, barArrived, barReleased, chan, recvDone,
                   aborting, outVars, histVars>>

\* faulty variant: the root prints after its first reduction
IsLastReduction_First(j) == j = 1

\* line 164 is the last of the six reductions
IsLastReduction(j) == j = 6

\* MPI_Reduce on the root: it returns once the next contribution of every
\* other rank has arrived, combined with its own
ReduceAtRoot(r) ==
    /\ pc[r] = "aggregate"
    /\ r = ReduceRoot
    /\ \A q \in Ranks \ {r} : redq[q] # <<>>
    /\ LET j == redIdx[r]
           parts == {Contribution(r, j)} \cup {Head(redq[q]) : q \in Ranks \ {r}}
       IN  \E v \in Combine(ReduceOp(j), parts) :
             global' = [global EXCEPT ![j] = [val |-> v, from |-> parts]]
    /\ redq' = [q \in RankIds |-> IF q \in Ranks \ {r} THEN Tail(redq[q]) ELSE redq[q]]
    /\ IF IsLastReduction(redIdx[r])
       THEN pc' = [pc EXCEPT ![r] = "report"] /\ redIdx' = [redIdx EXCEPT ![r] = 0]
       ELSE pc' = pc /\ redIdx' = [redIdx EXCEPT ![r] = @ + 1]
    /\ UNCHANGED <<envVars, next, prev, send_buf, recv_buf, dt, bw, exit_code,
                   slept, barArrived, barReleased, chan, recvDone, aborting,
                   outVars, histVars>>

\* lines 154 and 166: global_avg = global_sum / num_processes
GlobalAvg(sum) == FDiv(sum, num_processes)

\* the values of the statistics line (lines 170-175), in print order
StatsLine ==
    [min_bw |-> global[1].val, max_bw |-> global[2].val,
     avg_bw |-> GlobalAvg(global[3].val),
     min_dt |-> global[4].val, max_dt |-> global[5].val,
     avg_dt |-> GlobalAvg(global[6].val)]

\* faulty variant: the statistics line printed without the rank == 0 test
Reports_All(r) == TRUE

\* line 168: who prints
Reports(r) == r = 0

\* lines 168-177: the statistics line (rank 0), then the end of the loop
\* body, where the iteration's locals go out of scope
Report(r, cyc) ==
    /\ pc[r] = "report"
    /\ lines' = [lines EXCEPT ![r] = IF Reports(r) THEN Bump(@, cyc) ELSE @]
    /\ dt' = [dt EXCEPT ![r] = 0]
    /\ bw' = [bw EXCEPT ![r] = 0]
    /\ global' = IF r = ReduceRoot THEN [j \in 1..6 |-> NoResult] ELSE global
    /\ sample' = IF Reports(r) THEN [q \in RankIds |-> NoSample] ELSE sample
    /\ pc' = [pc EXCEPT ![r] = "loop"]
    /\ UNCHANGED <<envVars, next, prev, send_buf, recv_buf, redIdx, exit_code,
                   slept, mpiVars, banner, diag, iter, missed>>

(***************************************************************************)
(* Specifications.                                                         *)
(***************************************************************************)
\* one step of process r
RankStep(r, cyc) ==
    \/ Startup(r)
    \/ AllocHost(r)
    \/ AllocDevice(r)
    \/ NoCuda(r)
    \/ MPIAbort(r)
    \/ LoopTop(r, cyc)
    \/ Wake(r)
    \/ LeaveBarrier(r)
    \/ CompleteExchange(r)
    \/ Contribute(r)
    \/ ReduceAtRoot(r)
    \/ Report(r, cyc)

\* one step of the MPI runtime on behalf of process r
RuntimeStep(r) == Deliver(r) \/ Kill(r)

Next == \E r \in RankIds : RankStep(r, FALSE) \/ RuntimeStep(r)

\* the run cut off after MaxIter iterations
Spec == Init /\ [][Next]_vars

NextLive == \E r \in RankIds : RankStep(r, TRUE) \/ RuntimeStep(r)

\* the endless run: every step of a live process, and of the runtime on its
\* behalf, that stays possible is eventually taken
Fairness ==
    \A r \in RankIds :
        /\ WF_vars(Startup(r))
        /\ WF_vars(AllocHost(r))
        /\ WF_vars(AllocDevice(r))
        /\ WF_vars(NoCuda(r))
        /\ WF_vars(MPIAbort(r))
        /\ WF_vars(LoopTop(r, TRUE))
        /\ WF_vars(Wake(r))
        /\ WF_vars(LeaveBarrier(r))
        /\ WF_vars(CompleteExchange(r))
        /\ WF_vars(Contribute(r))
        /\ WF_vars(ReduceAtRoot(r))
        /\ WF_vars(Report(r, TRUE))
        /\ WF_vars(Deliver(r))
        /\ WF_vars(Kill(r))

LiveSpec == Init /\ [][NextLive]_vars /\ Fairness

\* the exit code of a process ended by SIGKILL
KilledExit == 137

\* a process dies (a signal, a fault of the node) on its way to the barrier
\* of line 123: at the top of an iteration or in sleep_for.  The other
\* processes are left running: a launcher that tears the job down on the
\* death of a process only removes behaviours
Crash(r) ==
    /\ pc[r] \in {"loop", "sleep"}
    /\ \A q \in Ranks : pc[q] # "crashed"
    /\ pc' = [pc EXCEPT ![r] = "crashed"]
    /\ exit_code' = [exit_code EXCEPT ![r] = KilledExit]
    /\ missed' = [missed EXCEPT ![r] = IF pc[r] = "sleep" THEN iter[r] ELSE iter[r] + 1]
    /\ UNCHANGED <<envVars, next, prev, send_buf, recv_buf, dt, bw, redIdx,
                   slept, global, mpiVars, outVars, iter, sample>>

NextCrash == Next \/ \E r \in RankIds : Crash(r)

\* the run cut off after MaxIter iterations, in which one process may die
CrashSpec == Init /\ [][NextCrash]_vars

(***************************************************************************)
(* Claims.                                                                 *)
(***************************************************************************)
\* C1: in the endless run with every process and the runtime scheduled
\* fairly, every rank that stays in the loop reaches the end of an iteration
\* (its barrier, exchange and six reductions all returned) again and again,
\* and the root emits a statistics line again and again: no deadlock, for
\* every group size including the self-ring.
C1_LoopNeverDeadlocks ==
    /\ \A r \in RankIds : []<>(pc[r] \notin LoopPcs \/ pc[r] = "report")
    /\ []<>(pc[0] \notin LoopPcs) \/ []<><<Report(0, TRUE)>>_vars

\* the root of a full ring has emitted MaxIter lines and is back at the top
C1_Witness ==
    /\ num_processes = MaxN
    /\ lines[0] = MaxIter
    /\ pc[0] = "loop"

\* C2: for a running rank that has resolved its neighbours, next = (r+1) mod N and
\* prev = (r-1+N) mod N, both ranks of the group: the successor and the
\* predecessor on the ring, and the rank itself when N = 1.
C2_RingNeighbours ==
    \A r \in Ranks :
        pc[r] \in {"alloc", "abort"} \cup LoopPcs =>
            /\ next[r] \in Ranks
            /\ prev[r] \in Ranks
            /\ next[r] = (r + 1) % num_processes
            /\ prev[r] = (r - 1 + num_processes) % num_processes
            /\ next[r] = (IF r = num_processes - 1 THEN 0 ELSE r + 1)
            /\ prev[r] = (IF r = 0 THEN num_processes - 1 ELSE r - 1)
            /\ (num_processes = 1 => next[r] = r /\ prev[r] = r)

\* rank 0 of the largest ring has resolved its neighbours: prev wraps around
C2_Witness ==
    /\ num_processes = MaxN
    /\ pc[0] = "alloc"
    /\ prev[0] = MaxN - 1
    /\ next[0] = 1

\* rank q has arrived at the barrier of iteration k
Arrived(q, k) ==
    \/ iter[q] > k
    \/ iter[q] = k /\ pc[q] \in {"sync", "exchange", "aggregate", "report", "loop"}

\* rank r has started the timed region of iteration iter[r]
Timing(r) == iter[r] >= 1 /\ pc[r] \in {"exchange", "aggregate", "report", "loop"}

\* C3: a rank that has started the timed region of an iteration (t0 taken,
\* send and receive issued) did so after every rank of the group had arrived
\* at that iteration's barrier.
C3_TimedAfterBarrier ==
    \A r \in Ranks : Timing(r) => \A q \in Ranks : Arrived(q, iter[r])

\* in the largest ring a rank is in its second exchange while another rank
\* has not yet returned from the barrier
C3_Witness ==
    /\ num_processes = MaxN
    /\ \E r, q \in Ranks : pc[r] = "exchange" /\ iter[r] = MaxIter /\ pc[q] = "sync"

\* device mode requested on a build without USE_CUDA
NoCudaCfg == use_gpu /\ ~cuda_build

AllExitedNonZero == \A r \in Ranks : pc[r] = "exited" /\ exit_code[r] # 0

\* C4: with device mode requested on a build without device support, no
\* rank ever enters the loop (so none blocks in a collective), no statistics
\* line is emitted, a rank that has ended has a non-zero exit code, and under
\* fair scheduling every rank of the group ends.
C4_NoCudaIsFatal ==
    /\ [](NoCudaCfg =>
            \A r \in Ranks :
                /\ pc[r] \notin LoopPcs
                /\ lines[r] = 0
                /\ (pc[r] = "exited" => exit_code[r] # 0))
    /\ (NoCudaCfg ~> AllExitedNonZero)

\* the largest group has ended on the missing device support
C4_Witness ==
    /\ NoCudaCfg
    /\ num_processes = MaxN
    /\ AllExitedNonZero

\* C5: on a configuration error (device mode that cannot be served) the
\* group-wide abort never takes effect before some rank has written a
\* diagnostic.
C5_DiagnosticBeforeAbort == (use_gpu /\ aborting) => \E r \in Ranks : diag[r]

\* C6: in device mode, a number of devices that differs from the number of
\* processes keeps every rank out of the loop.
C6_DeviceMismatchIsFatal ==
    (use_gpu /\ cuda_build /\ numDevices # num_processes) =>
        \A r \in Ranks : pc[r] \notin LoopPcs

MinOf(S) == CHOOSE m \in S : \A v \in S : m <= v
MaxOf(S) == CHOOSE m \in S : \A v \in S : m >= v

\* the double sum of vals[order[1]], vals[order[2]], ... taken left to right
RECURSIVE SumInOrder(_, _, _)
SumInOrder(vals, order, n) ==
    IF n = 1 THEN vals[order[1]]
    ELSE FAdd(SumInOrder(vals, order, n - 1), vals[order[n]])

RankOrders ==
    {o \in [1..num_processes -> Ranks] : \A i, k \in 1..num_processes : o[i] = o[k] => i = k}

\* the double sums of one value per rank, over every order of the ranks
SumsOf(vals) == {SumInOrder(vals, o, num_processes) : o \in RankOrders}

SampleBw == [r \in Ranks |-> sample[r].bw]
SampleDt == [r \in Ranks |-> sample[r].dt]

\* the six reductions combined exactly one contribution per rank, each the
\* rank's own sample of the root's iteration
OneSamplePerRank ==
    /\ \A r \in Ranks : sample[r].iter = iter[0]
    /\ \A j \in 1..6 :
         global[j].from =
            {[rank |-> r, iter |-> iter[0], op |-> ReduceOp(j),
              val |-> IF j <= 3 THEN sample[r].bw ELSE sample[r].dt] : r \in Ranks}

MinMaxReported ==
    /\ StatsLine.min_bw = MinOf({SampleBw[r] : r \in Ranks})
    /\ StatsLine.max_bw = MaxOf({SampleBw[r] : r \in Ranks})
    /\ StatsLine.min_dt = MinOf({SampleDt[r] : r \in Ranks})
    /\ StatsLine.max_dt = MaxOf({SampleDt[r] : r \in Ranks})

\* C7 as amended: the line the root is about to print holds, for bandwidth
\* and for duration, the minimum and the maximum of exactly one sample per
\* rank, all of the root's iteration (whatever the order of combination), and
\* as mean the double sum of those N samples, taken in the order the
\* reduction combined them, divided by N.
C7_ReportedStatistics ==
    pc[0] = "report" =>
        /\ OneSamplePerRank
        /\ MinMaxReported
        /\ StatsLine.avg_bw \in {FDiv(t, num_processes) : t \in SumsOf(SampleBw)}
        /\ StatsLine.avg_dt \in {FDiv(t, num_processes) : t \in SumsOf(SampleDt)}

\* the root of the largest ring is about to print a line whose minimum and
\* maximum differ
C7_Witness ==
    /\ num_processes = MaxN
    /\ pc[0] = "report"
    /\ StatsLine.min_dt < StatsLine.max_dt

\* C7 as claimed: in addition, the mean does not depend on the order in
\* which the contributions are combined.
C7_OrderIndependent ==
    pc[0] = "report" =>
        /\ OneSamplePerRank
        /\ MinMaxReported
        /\ \A t \in SumsOf(SampleBw) : StatsLine.avg_bw = FDiv(t, num_processes)
        /\ \A t \in SumsOf(SampleDt) : StatsLine.avg_dt = FDiv(t, num_processes)

\* iterations rank r has completed
Completed(r) ==
    IF pc[r] \in {"sleep", "sync", "exchange", "aggregate", "report"}
    THEN iter[r] - 1 ELSE iter[r]

\* C8: no rank other than rank 0 has emitted a statistics line, and rank 0
\* has emitted exactly one per iteration it has completed (a rank 0 whose
\* process ended inside an iteration has emitted none for that iteration).
C8_OneLinePerIteration ==
    /\ \A r \in Ranks : r # 0 => lines[r] = 0
    /\ pc[0] \in LoopPcs => lines[0] = Completed(0)
    /\ pc[0] \notin LoopPcs => lines[0] \in {iter[0] - 1, iter[0]}

\* every rank of the largest ring has completed MaxIter iterations
C8_Witness ==
    /\ num_processes = MaxN
    /\ lines[0] = MaxIter
    /\ \A r \in Ranks : pc[r] = "loop" /\ iter[r] = MaxIter

IsZeroed(b) == b.space \in {"host", "device"} /\ b.size = msg_size /\ b.fill = 0

\* C9: in either memory space, a rank whose allocations succeeded, that has
\* entered the loop and not yet begun its first exchange, holds two
\* zero-filled buffers of msg_size bytes.
C9_BuffersZeroed ==
    \A r \in Ranks :
        (mallocOk /\ pc[r] \in {"loop", "sleep", "sync"} /\ iter[r] <= 1) =>
            IsZeroed(send_buf[r]) /\ IsZeroed(recv_buf[r])

\* C10: with --interval=0 no rank is ever in the Sleeping step, and with a
\* positive --interval a sleeping rank sleeps for that interval.
C10_IntervalHonoured ==
    /\ argv.interval = 0 => \A r \in Ranks : pc[r] # "sleep"
    /\ (argv.interval # NoArg /\ argv.interval > 0) =>
          \A r \in Ranks : pc[r] = "sleep" => slept[r] = argv.interval

\* C11: with one process and --mem-copy-local the exchange is a direct local
\* copy (no message is put on the transfer path), and once the exchange is
\* complete the receive buffer holds what the send buffer holds.
C11_LocalCopy ==
    (num_processes = 1 /\ argv.memCopyLocal) =>
        /\ chan[0] = <<>>
        /\ (pc[0] \in {"aggregate", "report"} => recv_buf[0].fill = send_buf[0].fill)

\* the buffer allocation of rank r has been attempted and has failed
AllocFailed(r) ==
    /\ pc[r] \notin {"off", "start", "alloc"}
    /\ \/ ~use_gpu /\ ~mallocOk
       \/ use_gpu /\ cuda_build /\ ~CudaOk

\* C12: a rank on which a memory operation has failed goes no further than
\* the group-wide abort: it never enters the loop, so it joins no collective
\* and takes part in no statistics line after the failure.
C12_FailureAborts ==
    \A r \in Ranks : AllocFailed(r) => pc[r] \in {"abort", "exited"}

Allocated(b) == b.space \in {"host", "device"}
Freed(b) == b.space = "freed"

\* rank r has been in the loop and its process has ended
LeftLoop(r) == pc[r] = "exited" /\ iter[r] >= 1

\* no buffer is freed while its rank is in the loop
NotFreedInUse ==
    \A r \in Ranks : pc[r] \in LoopPcs => ~Freed(send_buf[r]) /\ ~Freed(recv_buf[r])

BytesMoved(r) == 2 * IntCast(msg_size)

\* C14: every message on a link carries msg_size bytes, and the bytes an
\* exchange moved are the 2 * msg_size that its bandwidth sample divides by
\* the duration.
C14_BytesMoved ==
    /\ \A r \in Ranks : \A i \in 1..Len(chan[r]) : chan[r][i].count = msg_size
    /\ \A r \in Ranks :
         pc[r] \in {"aggregate", "report"} =>
            /\ BytesMoved(r) = 2 * msg_size
            /\ bw[r] = FDiv(Fl(BytesMoved(r)), dt[r])

\* where a buffer is and how large it is: everything but its content
Placement(b) == <<b.addr, b.space, b.size>>

\* C15: no step changes msg_size or the memory space, no step taken by or
\* on behalf of a rank in the loop moves or resizes one of its buffers, and
\* every message of every exchange carries the same count.
C15_FixedForTheRun ==
    /\ [][/\ msg_size' = msg_size
          /\ use_gpu' = use_gpu
          /\ \A r \in Ranks :
                pc[r] \in LoopPcs =>
                    /\ Placement(send_buf'[r]) = Placement(send_buf[r])
                    /\ Placement(recv_buf'[r]) = Placement(recv_buf[r])]_vars
    /\ [](\A r \in Ranks : \A i \in 1..Len(chan[r]) :
              chan[r][i].count = IntCast(msg_size))

\* a rank of the largest ring has finished MaxIter iterations and its
\* receive buffer, still in place, holds bytes it did not hold at start-up
C15_Witness ==
    /\ num_processes = MaxN
    /\ \E r \in Ranks :
         /\ pc[r] = "loop"
         /\ iter[r] = MaxIter
         /\ Placement(recv_buf[r]) = <<AddrOf("recv"), "host", msg_size>>
         /\ recv_buf[r].fill # heap["recv"]

\* the step that follows step p of the loop; "loop" is the point between
\* Reporting and the next Sleeping, where the loop condition is evaluated
StepAfter(p) ==
    CASE p = "loop" -> IF interval_sec > 0 THEN "sleep" ELSE "sync"
      [] p = "sleep" -> "sync"
      [] p = "sync" -> "exchange"
      [] p = "exchange" -> "aggregate"
      [] p = "aggregate" -> "report"
      [] p = "report" -> "loop"

\* the process of rank r is being ended: by the abort that follows an MPI
\* error, by the kill of a group-wide abort, or by a fault
Ended(r) ==
    \/ pc'[r] = "abort"
    \/ pc'[r] = "exited" /\ exit_code'[r] # 0

\* C16: a rank in the loop moves from a step to that step's successor only,
\* in the order Sleeping, Synchronizing, Exchanging, Aggregating, Reporting
\* and Sleeping again; the loop has no state in which it stops and no exit
\* of its own: a rank stops cycling only when its process is ended.
C16_CyclicOrder ==
    [][\A r \in Ranks :
          (pc[r] \in LoopPcs /\ pc'[r] # pc[r]) =>
              pc'[r] = StepAfter(pc[r]) \/ Ended(r)]_vars

\* a rank of the largest ring has been round the cycle and sleeps again
C16_Witness ==
    /\ num_processes = MaxN
    /\ \E r \in Ranks : pc[r] = "sleep" /\ iter[r] = MaxIter

\* rank q has not arrived at the barrier of iteration k: it is still on its
\* way there, or its process died on the way
NotYetAt(q, k) ==
    \/ pc[q] = "crashed" /\ missed[q] <= k
    \/ pc[q] \in {"start", "alloc"}
    \/ pc[q] = "sleep" /\ iter[q] <= k
    \/ pc[q] \in {"loop", "sync", "exchange", "aggregate", "report"} /\ iter[q] < k

\* rank r has returned from the barrier of iteration k
PastBarrier(r, k) ==
    \/ iter[r] > k
    \/ iter[r] = k /\ pc[r] \in {"exchange", "aggregate", "report", "loop", "abort"}

\* C17: while some rank has not arrived at the barrier of iteration k,
\* because it is slow or because its process died on the way, no rank has
\* returned from that barrier and the root has emitted no statistics line
\* for iteration k or a later one.
C17_StalledBarrier ==
    \A q \in Ranks : \A k \in 1..MaxIter :
        NotYetAt(q, k) =>
            /\ \A r \in Ranks : ~PastBarrier(r, k)
            /\ lines[0] < k

\* in the largest ring a process died on its way to the barrier of the last
\* iteration, and every other rank waits in that barrier
C17_Witness ==
    /\ num_processes = MaxN
    /\ \E q \in Ranks :
         /\ pc[q] = "crashed"
         /\ missed[q] = MaxIter
         /\ \A r \in Ranks \ {q} : pc[r] = "sync" /\ iter[r] = MaxIter
    /\ lines[0] = MaxIter - 1

\* rank r has completed the exchange of iteration k and made its six
\* MPI_Reduce calls for it
Contributed(r, k) ==
    \/ iter[r] > k
    \/ iter[r] = k /\ pc[r] \in {"report", "loop"}

\* reduction j has delivered at the root: it combined one contribution of
\* iteration k from every rank
Delivered(j, k) ==
    /\ {c.rank : c \in global[j].from} = Ranks
    /\ \A c \in global[j].from : c.iter = k

\* C18: when the root is about to emit the line of iteration k, each of the
\* six reductions of iteration k has delivered and every rank has completed
\* its iteration-k exchange and contributed its sample; the reporting step
\* of a rank waits for nothing and leaves the barrier, the links and the
\* reductions untouched.
C18_ReportAfterReductions ==
    /\ [](pc[0] = "report" =>
            /\ \A j \in 1..6 : Delivered(j, iter[0])
            /\ \A r \in Ranks : sample[r].iter = iter[0]
            /\ \A r \in Ranks : pc[r] \in LoopPcs => Contributed(r, iter[0]))
    /\ [](\A r \in Ranks : pc[r] = "report" => ENABLED Report(r, FALSE))
    /\ [][\A r \in Ranks :
            (pc[r] = "report" /\ pc'[r] # "report" /\ ~Ended(r)) =>
                UNCHANGED mpiVars]_vars

\* the root of the largest ring is about to emit the line of the last
\* iteration while another rank has already gone round to the loop top
C18_Witness ==
    /\ num_processes = MaxN
    /\ pc[0] = "report"
    /\ iter[0] = MaxIter
    /\ \E r \in Ranks : r # 0 /\ pc[r] = "loop" /\ iter[r] = MaxIter

\* the message rank r's posted receive will take next, if there is one
Matchable(r) == pc[r] = "exchange" /\ ~recvDone[r] /\ chan[prev[r]] # <<>>

\* C19: at most one message is in flight on any link, and the message a
\* rank's receive of iteration k is matched with is the one its prev
\* neighbour sent to it, with tag 0, in iteration k.
C19_MatchedWithinIteration ==
    /\ \A r \in Ranks : Len(chan[r]) <= 1
    /\ \A r \in Ranks :
         Matchable(r) =>
            /\ Head(chan[prev[r]]).iter = iter[r]
            /\ Head(chan[prev[r]]).dest = r
            /\ Head(chan[prev[r]]).tag = 0

\* in the largest ring a rank waits in its receive of the last iteration
\* with the message from prev in flight, while next has not taken the
\* rank's own message yet
C19_Witness ==
    /\ num_processes = MaxN
    /\ \E r \in Ranks :
         /\ Matchable(r)
         /\ iter[r] = MaxIter
         /\ Head(chan[prev[r]]).iter = MaxIter
         /\ chan[r] # <<>>

\* rank r has begun / rank q has finished the exchange of iteration k
BegunExchange(r, k) ==
    \/ iter[r] > k
    \/ iter[r] = k /\ pc[r] \in {"exchange", "aggregate", "report", "loop"}
FinishedExchange(q, k) ==
    \/ iter[q] > k
    \/ iter[q] = k /\ pc[q] \in {"aggregate", "report", "loop"}

\* C20: the iteration counts of two ranks never differ by more than one,
\* and a rank has begun the exchange of iteration k+1 only if every rank
\* has finished the exchange of iteration k.
C20_LockStep ==
    \A r, q \in Ranks :
        /\ iter[r] - iter[q] <= 1
        /\ \A k \in 1..MaxIter :
             BegunExchange(r, k + 1) => FinishedExchange(q, k)

\* in the largest ring a rank other than the root is through its reductions
\* and waits in the barrier of the last iteration while the root is still
\* in the reductions of the iteration before
C20_Witness ==
    /\ num_processes = MaxN
    /\ pc[0] = "aggregate"
    /\ iter[0] = MaxIter - 1
    /\ \E r \in Ranks : r # 0 /\ pc[r] = "sync" /\ iter[r] = MaxIter
=============================================================================
